---- MODULE Spec2Model ----
(***************************************************************************)
(* Student Expense Tracker (src/app.py).                                   *)
(*                                                                         *)
(* The persisted collection is the file CSV_FILE; it is read by            *)
(* load_expenses, rewritten by save_expense and deleted by the "Clear All" *)
(* button of main.  Two specifications are given:                          *)
(*   Spec       the dashboard: every step is one top-to-bottom pass of     *)
(*              main (a plain re-render, an "Add Expense" click or a       *)
(*              "Clear All Expenses" click);                               *)
(*   StoreSpec  the store operations called directly, in any order:        *)
(*              load_expenses, save_expense and os.remove(CSV_FILE).       *)
(*                                                                         *)
(* Amounts and budgets are whole currency units (floats that are integers  *)
(* add and subtract exactly).  A date is a day number.                     *)
(***************************************************************************)
EXTENDS Integers, Sequences, FiniteSets

\* ---------------------------------------------------------------- bounds
MaxRecords == 3
MaxRows == 2
MaxDate == 1
MaxAmount == 1
MaxStoreAmount == 2
MaxBudget == 1

\* ------------------------------------------------------------- constants
CATEGORIES == <<"Food", "Travel", "Shopping", "Bills", "Other">>

DefaultBudget == 5000

Range(s) == {s[i] : i \in 1..Len(s)}

\* Values the widgets of the sidebar can hold.
Budgets == (0..MaxBudget) \cup {DefaultBudget}

Amounts == 0..MaxAmount

\* Amounts a direct caller of save_expense may pass.
StoreAmounts == 0..MaxStoreAmount

\* Dates of the records a direct caller of save_expense passes.
Dates == 1..MaxDate

\* The date picker's default, date.today(); the dashboard passes keep it.
Today == 1

\* Categories of the records a direct caller of save_expense passes: a
\* sample of CATEGORIES.
StoreCategories == {CATEGORIES[1], CATEGORIES[2]}

VARIABLES
    CSV_FILE,      \* the file: [exists, rows], rows are lines of text cells
    op,            \* the operation the last step performed
    new_expense,   \* the record handed to save_expense by the last step
    df,            \* the DataFrame the last step loaded
    error,         \* the error the last step surfaced, or "none"
    saved,         \* the last step called save_expense
    budget,        \* sidebar budget input
    amount,        \* sidebar amount input
    total_spent,   \* summary card
    remaining,     \* summary card
    delta,         \* text under the remaining balance
    summary,       \* category-wise totals shown (empty when not rendered)
    clear_button,  \* the "Clear All Expenses" button was rendered
    history,       \* amounts appended since the start, emptied by a clear
    cleared        \* some clear has deleted the file since the start

vars == <<CSV_FILE, op, new_expense, df, error, saved, budget, amount,
          total_spent, remaining, delta, summary, clear_button,
          history, cleared>>

uiVars == <<budget, amount, total_spent, remaining, delta, summary,
            clear_button>>

\* ------------------------------------------------------ values and text
\* In memory a Date cell is a datetime.date (a new row) or a Timestamp
\* (a row that read_csv parsed).
DateObj(d) == [kind |-> "date", day |-> d]

Timestamp(d) == [kind |-> "Timestamp", day |-> d]

\* to_csv writes the cells of the object column Date with str(): a date
\* as "YYYY-MM-DD", a Timestamp as "YYYY-MM-DD 00:00:00".
FormatDate(v) == [day |-> v.day, time |-> (v.kind = "Timestamp")]

\* read_csv(parse_dates=["Date"]) parses either text to a Timestamp.
ParseDate(t) == Timestamp(t.day)

\* A float that is a whole number is written "<whole>.0" and parsed back.
FormatFloat(a) == [whole |-> a, frac |-> 0]

ParseFloat(t) == t.whole + t.frac

FormatRow(r) ==
    [Date |-> FormatDate(r.Date), Category |-> r.Category,
     Amount |-> FormatFloat(r.Amount)]

ParseRow(l) ==
    [Date |-> ParseDate(l.Date), Category |-> l.Category,
     Amount |-> ParseFloat(l.Amount)]

NoFile == [exists |-> FALSE, rows |-> <<>>]

NoExpense == [Date |-> DateObj(0), Category |-> "", Amount |-> 0]

\* ------------------------------------------------------------ the store
read_csv(file) ==
    IF file.exists
    THEN [df |-> [i \in 1..Len(file.rows) |-> ParseRow(file.rows[i])],
          error |-> "none"]
    ELSE [df |-> <<>>, error |-> "FileNotFoundError"]

load_expenses_no_check(file) == read_csv(file)

load_expenses(file) ==
    IF file.exists
    THEN read_csv(file)
    ELSE [df |-> <<>>, error |-> "none"]

concat(d, new_row) == Append(d, new_row)

to_csv(d) ==
    [exists |-> TRUE, rows |-> [i \in 1..Len(d) |-> FormatRow(d[i])]]

save_expense_no_load(file, expense) == to_csv(<<expense>>)

save_expense(file, expense) ==
    to_csv(concat(load_expenses(file).df, expense))

os_remove_missing_ok(file) == [file |-> NoFile, error |-> "none"]

os_remove_other_path(file) ==
    [file |-> file,
     error |-> IF file.exists THEN "none" ELSE "FileNotFoundError"]

os_remove(file) ==
    IF file.exists
    THEN [file |-> NoFile, error |-> "none"]
    ELSE [file |-> file, error |-> "FileNotFoundError"]

\* ------------------------------------------------------- the aggregator
Empty(d) == Len(d) = 0

RECURSIVE SumAmount(_)
SumAmount(d) ==
    IF Len(d) = 0 THEN 0
    ELSE SumAmount(SubSeq(d, 1, Len(d) - 1)) + d[Len(d)].Amount

total_spent_skip_first(d) ==
    IF Empty(d) THEN 0 ELSE SumAmount(SubSeq(d, 2, Len(d)))

total_spent_of(d) == IF ~Empty(d) THEN SumAmount(d) ELSE 0

remaining_swapped(b, total) == total - b

remaining_of(b, total) == b - total

delta_of(rem) == IF rem < 0 THEN "Over budget!" ELSE "On track"

GroupRows(d, c) == SelectSeq(d, LAMBDA r : r.Category = c)

groupby_first(d) ==
    [c \in {d[i].Category : i \in 1..Len(d)} |-> GroupRows(d, c)[1].Amount]

groupby_sum(d) ==
    [c \in {d[i].Category : i \in 1..Len(d)} |-> SumAmount(GroupRows(d, c))]

\* -------------------------------------------------------- the dashboard
NewExpenseNoCategory(d, c, a) ==
    [Date |-> DateObj(d), Category |-> "", Amount |-> a]

NewExpense(d, c, a) ==
    [Date |-> DateObj(d), Category |-> c, Amount |-> a]

RejectedOnlyNegative(a) == a < 0

Rejected(a) == a <= 0

ClearButtonAlways(d) == TRUE

ClearButtonRendered(d) == ~Empty(d)

\* Lines 99-151: load the file and fill the cards, the tables and the
\* button, for the widget values b and a.
Show(b, a, file) ==
    /\ budget' = b
    /\ amount' = a
    /\ df' = load_expenses(file).df
    /\ total_spent' = total_spent_of(df')
    /\ remaining' = remaining_of(b, total_spent')
    /\ delta' = delta_of(remaining')
    /\ summary' = IF Empty(df') THEN <<>> ELSE groupby_sum(df')
    /\ clear_button' = ClearButtonRendered(df')

Init ==
    /\ CSV_FILE = NoFile
    /\ op = "init"
    /\ new_expense = NoExpense
    /\ df = <<>>
    /\ error = "none"
    /\ saved = FALSE
    /\ budget = DefaultBudget
    /\ amount = 0
    /\ total_spent = 0
    /\ remaining = DefaultBudget
    /\ delta = "On track"
    /\ summary = <<>>
    /\ clear_button = FALSE
    /\ history = <<>>
    /\ cleared = FALSE

\* A pass with no button pressed (a widget changed, or the page reloaded).
RenderPass(b, a) ==
    /\ op' = "render"
    /\ CSV_FILE' = CSV_FILE
    /\ new_expense' = NoExpense
    /\ error' = "none"
    /\ saved' = FALSE
    /\ Show(b, a, CSV_FILE)
    /\ UNCHANGED <<history, cleared>>

\* A pass with "Add Expense" pressed.
AddExpense(b, d, c, a) ==
    /\ op' = "add_expense"
    /\ IF Rejected(a)
       THEN /\ CSV_FILE' = CSV_FILE
            /\ new_expense' = NoExpense
            /\ error' = "ValidationError"
            /\ saved' = FALSE
            /\ history' = history
       ELSE /\ Len(CSV_FILE.rows) < MaxRows
            /\ new_expense' = NewExpense(d, c, a)
            /\ CSV_FILE' = save_expense(CSV_FILE, new_expense')
            /\ error' = "none"
            /\ saved' = TRUE
            /\ history' = Append(history, a)
    /\ Show(b, a, CSV_FILE')
    /\ UNCHANGED cleared

\* A pass with "Clear All Expenses" pressed; the button can be pressed
\* only if the previous pass rendered it.  After a successful os.remove,
\* st.rerun() runs one more pass with no button pressed.
ClearAll(b, a) ==
    /\ clear_button
    /\ op' = "clear_all"
    /\ new_expense' = NoExpense
    /\ saved' = FALSE
    /\ LET removed == os_remove(CSV_FILE)
       IN  IF ClearButtonRendered(load_expenses(CSV_FILE).df)
           THEN /\ CSV_FILE' = removed.file
                /\ error' = removed.error
                /\ cleared' = (cleared \/ removed.error = "none")
                /\ history' = IF removed.error = "none" THEN <<>> ELSE history
           ELSE /\ CSV_FILE' = CSV_FILE
                /\ error' = "none"
                /\ UNCHANGED <<history, cleared>>
    /\ Show(b, a, CSV_FILE')

Next ==
    \/ \E b \in Budgets, a \in Amounts : RenderPass(b, a)
    \/ \E b \in Budgets, i \in 1..Len(CATEGORIES), a \in Amounts :
          AddExpense(b, Today, CATEGORIES[i], a)
    \/ \E b \in Budgets, a \in Amounts : ClearAll(b, a)

Spec == Init /\ [][Next]_vars

\* ------------------------------------------- the store, called directly
StoreLoad ==
    /\ op' = "load_expenses"
    /\ df' = load_expenses(CSV_FILE).df
    /\ error' = load_expenses(CSV_FILE).error
    /\ new_expense' = NoExpense
    /\ saved' = FALSE
    /\ UNCHANGED <<CSV_FILE, history, cleared>>
    /\ UNCHANGED uiVars

StoreAppend(expense) ==
    /\ Len(CSV_FILE.rows) < MaxRecords
    /\ op' = "save_expense"
    /\ new_expense' = expense
    /\ df' = concat(load_expenses(CSV_FILE).df, expense)
    /\ CSV_FILE' = save_expense(CSV_FILE, expense)
    /\ error' = "none"
    /\ saved' = TRUE
    /\ history' = Append(history, expense.Amount)
    /\ UNCHANGED cleared
    /\ UNCHANGED uiVars

StoreRemove ==
    /\ op' = "os_remove"
    /\ new_expense' = NoExpense
    /\ df' = <<>>
    /\ saved' = FALSE
    /\ CSV_FILE' = os_remove(CSV_FILE).file
    /\ error' = os_remove(CSV_FILE).error
    /\ cleared' = (cleared \/ error' = "none")
    /\ history' = IF error' = "none" THEN <<>> ELSE history
    /\ UNCHANGED uiVars

StoreNext ==
    \/ StoreLoad
    \/ \E d \in Dates, c \in StoreCategories, a \in StoreAmounts :
          StoreAppend(NewExpense(d, c, a))
    \/ StoreRemove

StoreSpec == Init /\ [][StoreNext]_vars

\* ======================================================== the properties
\* The record a DataFrame row stands for: its calendar date, its category
\* and its amount (a datetime.date and a Timestamp of the same day are the
\* same calendar date).
RecordOf(r) == [date |-> r.Date.day, category |-> r.Category, amount |-> r.Amount]

Records(d) == [i \in 1..Len(d) |-> RecordOf(d[i])]

Loaded == load_expenses(CSV_FILE).df

RECURSIVE SumSeq(_)
SumSeq(s) == IF Len(s) = 0 THEN 0 ELSE s[1] + SumSeq(Tail(s))

RECURSIVE SumOver(_, _)
SumOver(f, S) ==
    IF S = {} THEN 0
    ELSE LET c == CHOOSE x \in S : TRUE
         IN  f[c] + SumOver(f, S \ {c})

\* C1: save_expense followed by load_expenses returns the records that
\* load_expenses returned before, in the same order and with the same
\* values, followed by the appended record (so the length grows by one).
C1_AppendThenLoad ==
    [][op' = "save_expense" =>
          /\ Records(load_expenses(CSV_FILE').df)
               = Append(Records(Loaded), RecordOf(new_expense'))
          /\ Len(load_expenses(CSV_FILE').df) = Len(Loaded) + 1
          /\ load_expenses(CSV_FILE').error = "none"]_vars

C1_Witness ==
    /\ op = "save_expense"
    /\ Len(Loaded) = 3
    /\ RecordOf(Loaded[1]) # RecordOf(Loaded[2])
    /\ RecordOf(Loaded[3]) = RecordOf(new_expense)

\* C2: as long as nothing was cleared, the total of the loaded records is
\* the sum of the amounts appended since the absent store (0 for none).
C2_TotalIsSumOfAppended ==
    ~cleared => total_spent_of(Loaded) = SumSeq(history)

C2_Witness ==
    /\ ~cleared
    /\ Len(history) = 3
    /\ history[1] = 2
    /\ history[2] = 0
    /\ total_spent_of(Loaded) = 3

\* C3: the per-category totals, summed over the categories of the mapping,
\* equal the total spent of the same loaded records.
C3_CategoryTotalsSumToTotal ==
    SumOver(groupby_sum(Loaded), DOMAIN groupby_sum(Loaded))
        = total_spent_of(Loaded)

C3_Witness ==
    /\ Len(Loaded) = 3
    /\ Cardinality(DOMAIN groupby_sum(Loaded)) = 2
    /\ "Travel" \in DOMAIN groupby_sum(Loaded)
    /\ groupby_sum(Loaded)["Travel"] = 3
    /\ total_spent_of(Loaded) = 5

\* C4: an "Add Expense" pass whose amount is <= 0 does not call
\* save_expense and leaves the file exactly as it was; from an absent
\* store the store stays absent and the loaded collection has length 0.
C4_NonPositiveAmountRejected ==
    [][(op' = "add_expense" /\ amount' <= 0) =>
          /\ ~saved'
          /\ error' = "ValidationError"
          /\ CSV_FILE' = CSV_FILE
          /\ (~CSV_FILE.exists => ~CSV_FILE'.exists /\ Len(df') = 0)]_vars

C4_Witness ==
    /\ op = "add_expense"
    /\ amount = 0
    /\ error = "ValidationError"
    /\ ~CSV_FILE.exists

\* C5: os.remove(CSV_FILE) with no file fails with FileNotFoundError and
\* the store is still absent afterwards.
C5_ClearAbsentFails ==
    [][(op' = "os_remove" /\ ~CSV_FILE.exists) =>
          /\ error' = "FileNotFoundError"
          /\ ~CSV_FILE'.exists]_vars

C5_Witness ==
    /\ op = "os_remove"
    /\ error = "FileNotFoundError"
    /\ ~CSV_FILE.exists

\* C6: on a non-empty store, os.remove(CSV_FILE) raises nothing and
\* load_expenses then returns the empty sequence without an error.
C6_ClearThenLoadEmpty ==
    [][(op' = "os_remove" /\ ~Empty(Loaded)) =>
          /\ error' = "none"
          /\ load_expenses(CSV_FILE').df = <<>>
          /\ load_expenses(CSV_FILE').error = "none"]_vars

C6_Witness ==
    /\ op = "os_remove"
    /\ error = "none"
    /\ cleared
    /\ Loaded = <<>>

\* C7: load_expenses never changes the file, and on an absent store it
\* returns the empty sequence and raises nothing.
C7_LoadReadsOnly ==
    [][op' = "load_expenses" =>
          /\ CSV_FILE' = CSV_FILE
          /\ (~CSV_FILE.exists => df' = <<>> /\ error' = "none")]_vars

C7_Witness ==
    /\ op = "load_expenses"
    /\ ~CSV_FILE.exists
    /\ df = <<>>
    /\ error = "none"

\* C8: remaining is budget - total_spent, negative iff total_spent > budget
\* and zero iff total_spent = budget; the text is "Over budget!" exactly
\* when remaining is negative and "On track" otherwise.
C8_RemainingAndStatus ==
    /\ remaining = budget - total_spent
    /\ (remaining < 0 <=> total_spent > budget)
    /\ (remaining = 0 <=> total_spent = budget)
    /\ (delta = "Over budget!" <=> remaining < 0)
    /\ (delta = "On track" <=> remaining >= 0)

C8_Witness ==
    /\ total_spent = 2
    /\ budget = 1
    /\ remaining = -1
    /\ delta = "Over budget!"

\* C9: every record persisted through the dashboard has an amount >= 0
\* and a category of CATEGORIES.
C9_PersistedRecordsValid ==
    \A i \in 1..Len(Loaded) :
        /\ Loaded[i].Amount >= 0
        /\ Loaded[i].Category \in Range(CATEGORIES)

C9_Witness ==
    /\ cleared
    /\ Len(Loaded) = 2
    /\ Loaded[1].Category # Loaded[2].Category

\* C10: through the dashboard the file exists iff it holds at least one
\* record, the clear button is rendered only in a pass whose loaded
\* collection is non-empty, and no pass ends in FileNotFoundError.
C10_FileExistsIffRecords ==
    /\ (CSV_FILE.exists <=> Len(CSV_FILE.rows) >= 1)
    /\ (clear_button => ~Empty(df))
    /\ df = Loaded
    /\ error # "FileNotFoundError"

C10_Witness ==
    /\ op = "clear_all"
    /\ ~CSV_FILE.exists
    /\ ~clear_button
    /\ error = "none"

====
